---- MODULE Spec2Model ----
(***************************************************************************)
(* Model of the planning processor: the rescheduling tool (eligibility     *)
(* analysis, request validation, plan building), the execution tool and    *)
(* session manager, and the natural-language time parser with its date     *)
(* filter.  Calendar dates are proleptic Gregorian ordinals, as returned   *)
(* by Python's date.toordinal().                                           *)
(***************************************************************************)
EXTENDS Integers, Sequences, FiniteSets, TLC

VARIABLES
    sysdate,      \* what date.today() returns now
    parserToday,  \* TimeParser.today, captured by TimeParser.__init__
    data,         \* DataService._df_cache: the ordered order rows
    req,          \* the rescheduling request the tools are called with
    sessState,    \* the SessionManager entry of the session
    plan,         \* SessionData.last_action_plan of the session
    handed,       \* the plans handed to the planning service, in order
    last,         \* the last tool call: its inputs and what it returned
    running       \* the execute_plan calls in progress: where each caller is

vars == <<sysdate, parserToday, data, req, sessState, plan, handed, last, running>>

(***************************************************************************)
(* Bounds of the model                                                     *)
(***************************************************************************)
MaxReq == 2       \* longest planned_order_ids list of a request
MaxOffset == 3    \* largest days_offset of a request
DueBack == 1      \* earliest due date, in days before the first day
DueAhead == 2     \* latest due date, in days after the first day
MaxTicks == 1     \* how many midnights pass
MaxHanded == 2    \* how many plans are executed
MaxActions == 2   \* longest ActionPlan.actions

(***************************************************************************)
(* datetime.date: ordinals, calendar fields, weekday                       *)
(***************************************************************************)
Years == 1..9999

IsLeap(y) == (y % 4 = 0) /\ ((y % 100 # 0) \/ (y % 400 = 0))

DaysInMonth(y, m) ==
    IF m = 2 THEN (IF IsLeap(y) THEN 29 ELSE 28)
    ELSE IF m \in {4, 6, 9, 11} THEN 30 ELSE 31

DaysBeforeYear(y) ==
    LET p == y - 1 IN p * 365 + (p \div 4) - (p \div 100) + (p \div 400)

MonthStarts == <<0, 31, 59, 90, 120, 151, 181, 212, 243, 273, 304, 334>>

DaysBeforeMonth(y, m) == MonthStarts[m] + (IF m > 2 /\ IsLeap(y) THEN 1 ELSE 0)

ValidYMD(y, m, d) ==
    /\ y \in Years
    /\ m \in 1..12
    /\ d >= 1
    /\ d <= DaysInMonth(y, m)

\* date(y, m, d).toordinal()
Ordinal(y, m, d) == DaysBeforeYear(y) + DaysBeforeMonth(y, m) + d

\* date.fromordinal(n): the 400-, 100-, 4- and 1-year cycles
Ymd(n) ==
    LET n400 == (n - 1) \div 146097
        n100 == ((n - 1) % 146097) \div 36524
        n4 == (((n - 1) % 146097) % 36524) \div 1461
        r4 == (((n - 1) % 146097) % 36524) % 1461
        year == n400 * 400 + n100 * 100 + n4 * 4 + (r4 \div 365) + 1
        guess == ((r4 % 365) + 50) \div 32
        month == IF DaysBeforeMonth(year, guess) > r4 % 365 THEN guess - 1 ELSE guess
    IN IF r4 \div 365 = 4 \/ n100 = 4 THEN [y |-> year - 1, m |-> 12, d |-> 31]
       ELSE [y |-> year, m |-> month, d |-> (r4 % 365) - DaysBeforeMonth(year, month) + 1]

YearOf(n) == Ymd(n).y

MonthOf(n) == Ymd(n).m

DayOf(n) == Ymd(n).d

Weekday(n) == (n + 6) % 7

\* str(date): the 'YYYY-MM-DD' text, kept as its three fields
DateStr(n) == Ymd(n)

\* datetime.strptime(s, '%Y-%m-%d'): a ValueError is the value ParseFail
ParseFail == -1

Strptime(s) == IF ValidYMD(s.y, s.m, s.d) THEN Ordinal(s.y, s.m, s.d) ELSE ParseFail

Abs(k) == IF k < 0 THEN -k ELSE k

FirstDay == Ordinal(2025, 8, 29)

(***************************************************************************)
(* Inputs                                                                  *)
(***************************************************************************)
DataIds == <<"PO1", "PO2">>
AllIds == {"PO1", "PO2", "PO3"}

DueDays == (FirstDay - DueBack)..(FirstDay + DueAhead)

\* lists of distinct ids
IdLists ==
    {l \in UNION {[1..n -> AllIds] : n \in 0..MaxReq} :
        \A i, j \in DOMAIN l : l[i] = l[j] => i = j}

BadDate == [y |-> 2025, m |-> 13, d |-> 1]

\* target_date: absent, or the text 'YYYY-MM-DD' kept as its three fields
NoTarget == [y |-> 0, m |-> 0, d |-> 0]

TargetDates == {NoTarget, BadDate} \cup {DateStr(n) : n \in (FirstDay - 1)..(FirstDay + 1)}

\* days_offset: absent, an integer, or a text that is not a number
NoOffset == [k |-> "none", v |-> 0]

NaN == [k |-> "str", v |-> 0]

IntOffset(n) == [k |-> "int", v |-> n]

Offsets == {NoOffset, NaN} \cup {IntOffset(n) : n \in (0 - 1)..MaxOffset}

RescheduleTypes == {"prepone", "postpone"}

Requests ==
    [ids : IdLists, rtype : RescheduleTypes, target : TargetDates, offset : Offsets]

NoCall == [op |-> "none"]

(***************************************************************************)
(* ReschedulingTool.analyze_rescheduling_eligibility                       *)
(***************************************************************************)
Range(f) == {f[i] : i \in DOMAIN f}

Max(a, b) == IF a >= b THEN a ELSE b

\* df[df['planned_order_id'].isin(planned_order_ids)], or all rows for an empty list
SelectRows(rows, ids) ==
    IF ids # <<>> THEN SelectSeq(rows, LAMBDA r : r.id \in Range(ids)) ELSE rows

DaysDifference(suggested, current) == suggested - current

\* a slip: an order due tomorrow counted as preponable
CanPreponeFromTomorrow(days) == days >= 1

CanPrepone(days) == days > 1

MaxPreponeDays(days) == IF days > 1 THEN Max(0, days - 1) ELSE 0

StatusOf(days) ==
    IF days <= 0 THEN "overdue_or_today"
    ELSE IF days = 1 THEN "tomorrow"
    ELSE "future"

AnalyzeOrder(row, current) ==
    LET days == DaysDifference(row.due, current)
    IN [planned_order_id   |-> row.id,
        suggested_due_date |-> DateStr(row.due),
        days_from_today    |-> days,
        can_prepone        |-> CanPrepone(days),
        can_postpone       |-> TRUE,
        max_prepone_days   |-> MaxPreponeDays(days),
        status             |-> StatusOf(days)]

\* the tool's JSON answer: an error for an empty selection, else the analysis list
AnalyzeEligibility(rows, ids, current) ==
    LET df == SelectRows(rows, ids)
    IN IF df = <<>>
       THEN [error |-> TRUE, analysis |-> <<>>]
       ELSE [error |-> FALSE,
             analysis |-> [i \in 1..Len(df) |-> AnalyzeOrder(df[i], current)]]

Summary(analysis) ==
    [total_orders  |-> Len(analysis),
     can_prepone   |-> Cardinality({i \in DOMAIN analysis : analysis[i].can_prepone}),
     postpone_only |-> Cardinality({i \in DOMAIN analysis : ~analysis[i].can_prepone})]

(***************************************************************************)
(* ReschedulingTool.create_rescheduling_plan                               *)
(***************************************************************************)
\* Python truthiness of the optional arguments
TruthyTarget(target) == target # NoTarget

TruthyOffset(offset) == offset # NoOffset /\ offset # IntOffset(0)

PostponeDate(suggested, offset) == suggested + Abs(offset.v)

PreponeDate(suggested, offset) == suggested - Abs(offset.v)

\* one pass of the loop body: the order becomes a valid entry, an invalid
\* entry, or the body raises (strptime of the target date, abs of the offset)
PlanOrder(a, rtype, target, offset, current) ==
    LET suggested == Strptime(a.suggested_due_date)
        invalid(reason) ==
            [kind |-> "invalid",
             entry |-> [order_id |-> a.planned_order_id, reason |-> reason]]
        valid(nd) ==
            [kind |-> "valid",
             entry |-> [planned_order_id |-> a.planned_order_id,
                        current_suggested_date |-> a.suggested_due_date,
                        new_due_date |-> DateStr(nd),
                        reschedule_type |-> rtype,
                        days_changed |-> nd - suggested]]
        raise == [kind |-> "raise", entry |-> <<>>]
    IN IF rtype = "prepone" /\ ~a.can_prepone THEN invalid("cannot_prepone")
       ELSE IF TruthyTarget(target)
       THEN LET nd == Strptime(target)
            IN IF nd = ParseFail THEN raise
               ELSE IF nd < current THEN invalid("target_past")
               ELSE valid(nd)
       ELSE IF TruthyOffset(offset)
       THEN IF offset = NaN THEN raise
            ELSE IF rtype = "prepone"
            THEN LET nd == PreponeDate(suggested, offset)
                 IN IF nd < current THEN invalid("offset_past") ELSE valid(nd)
            ELSE valid(PostponeDate(suggested, offset))
       ELSE invalid("no_target_or_offset")

RECURSIVE PlanLoop(_, _, _, _, _, _, _)
PlanLoop(analysis, i, acc, rtype, target, offset, current) ==
    IF i > Len(analysis) \/ acc.raised THEN acc
    ELSE LET r == PlanOrder(analysis[i], rtype, target, offset, current)
             next == IF r.kind = "raise" THEN [acc EXCEPT !.raised = TRUE]
                     ELSE IF r.kind = "valid"
                     THEN [acc EXCEPT !.valid_orders = Append(@, r.entry)]
                     ELSE [acc EXCEPT !.invalid_orders = Append(@, r.entry)]
         IN PlanLoop(analysis, i + 1, next, rtype, target, offset, current)

BuildPlan(analysis, rtype, target, offset, current) ==
    PlanLoop(analysis, 1, [valid_orders |-> <<>>, invalid_orders |-> <<>>, raised |-> FALSE],
             rtype, target, offset, current)

(***************************************************************************)
(* ReschedulingTool.validate_rescheduling_request                          *)
(***************************************************************************)
\* a slip: the past-date check made for prepone requests only
ValidateTargetPreponeOnly(a, rtype, target, current) ==
    IF ~TruthyTarget(target) THEN [errors |-> <<>>, warnings |-> <<>>]
    ELSE LET t == Strptime(target)
         IN IF t = ParseFail THEN [errors |-> <<"bad_target_format">>, warnings |-> <<>>]
            ELSE [errors   |-> IF rtype = "prepone" /\ t < current
                               THEN <<"target_past">> ELSE <<>>,
                  warnings |-> <<>>]

ValidateTarget(a, rtype, target, current) ==
    IF ~TruthyTarget(target) THEN [errors |-> <<>>, warnings |-> <<>>]
    ELSE LET t == Strptime(target)
         IN IF t = ParseFail THEN [errors |-> <<"bad_target_format">>, warnings |-> <<>>]
            ELSE LET diff == t - Strptime(a.suggested_due_date)
                 IN [errors   |-> IF t < current THEN <<"target_past">> ELSE <<>>,
                     warnings |-> IF rtype = "prepone" /\ diff > 0 THEN <<"is_postponing">>
                                  ELSE IF rtype = "postpone" /\ diff < 0 THEN <<"is_preponing">>
                                  ELSE <<>>]

ValidateOffset(a, rtype, offset, current) ==
    IF ~TruthyOffset(offset) THEN <<>>
    ELSE IF offset = NaN THEN <<"bad_offset">>
    ELSE IF rtype = "prepone"
            /\ PreponeDate(Strptime(a.suggested_due_date), offset) < current
    THEN <<"offset_past">>
    ELSE <<>>

ValidateOrder(a, rtype, target, offset, current) ==
    LET e1 == IF rtype = "prepone" /\ ~a.can_prepone THEN <<"cannot_prepone">> ELSE <<>>
        vt == ValidateTarget(a, rtype, target, current)
        e3 == ValidateOffset(a, rtype, offset, current)
        errors == e1 \o vt.errors \o e3
    IN [planned_order_id |-> a.planned_order_id,
        is_valid |-> errors = <<>>,
        warnings |-> vt.warnings,
        errors   |-> errors]

ValidateAll(analysis, rtype, target, offset, current) ==
    [i \in 1..Len(analysis) |-> ValidateOrder(analysis[i], rtype, target, offset, current)]

OverallValid(validations) == \A i \in DOMAIN validations : validations[i].is_valid

(***************************************************************************)
(* Text: a string is the sequence of its characters.  The regular          *)
(* expressions of the time parser are matched as Python's re does:         *)
(* leftmost start, alternatives in order, greedy and lazy repetition with  *)
(* backtracking.                                                           *)
(***************************************************************************)
DigitChars == <<"0", "1", "2", "3", "4", "5", "6", "7", "8", "9">>

DigitVal(c) == (CHOOSE i \in 1..10 : DigitChars[i] = c) - 1

IsDigit(c) == c \in Range(DigitChars)

IsAlpha(c) == c \in Range(<<"a", "b", "c", "d", "e", "f", "g", "h", "i", "j", "k", "l", "m", "n", "o", "p", "q", "r", "s", "t", "u", "v", "w", "x", "y", "z">>)

IsSpace(c) == c = " "

InClass(cls, c) ==
    IF cls = "d" THEN IsDigit(c)
    ELSE IF cls = "a" THEN IsAlpha(c)
    ELSE IF cls = "s" THEN IsSpace(c)
    ELSE TRUE

\* int(digits)
RECURSIVE ToInt(_)
ToInt(ds) ==
    IF ds = <<>> THEN 0
    ELSE 10 * ToInt(SubSeq(ds, 1, Len(ds) - 1)) + DigitVal(ds[Len(ds)])

\* p in s
StartsAt(s, p, i) == i + Len(p) - 1 <= Len(s) /\ SubSeq(s, i, i + Len(p) - 1) = p

Contains(s, p) == \E i \in 1..(Len(s) + 1) : StartsAt(s, p, i)

\* s.strip()
RECURSIVE Strip(_)
Strip(s) ==
    IF s = <<>> THEN s
    ELSE IF IsSpace(s[1]) THEN Strip(Tail(s))
    ELSE IF IsSpace(s[Len(s)]) THEN Strip(SubSeq(s, 1, Len(s) - 1))
    ELSE s

\* s.replace(p, ''): every occurrence, left to right
RECURSIVE Remove(_, _)
Remove(s, p) ==
    IF s = <<>> THEN s
    ELSE IF StartsAt(s, p, 1) THEN Remove(SubSeq(s, Len(p) + 1, Len(s)), p)
    ELSE <<s[1]>> \o Remove(Tail(s), p)

\* len(s.split())
WordCount(s) ==
    Cardinality({i \in DOMAIN s : ~IsSpace(s[i]) /\ (i = 1 \/ IsSpace(s[i - 1]))})

Many == 99

Lit(w) == [i \in 1..Len(w) |-> [t |-> "chr", ch |-> w[i]]]

Cls(c, lo, hi) == <<[t |-> "cls", c |-> c, lo |-> lo, hi |-> hi, lazy |-> FALSE]>>

LazyCls(c, lo, hi) == <<[t |-> "cls", c |-> c, lo |-> lo, hi |-> hi, lazy |-> TRUE]>>

Alt(alts) == <<[t |-> "alt", alts |-> alts]>>

Opt(p) == Alt(<<p, <<>>>>)

Group(g, p) == <<[t |-> "open", g |-> g]>> \o p \o <<[t |-> "close", g |-> g]>>

AtEnd == <<[t |-> "end"]>>

NoCaps == [g \in 1..3 |-> [from |-> 1, to |-> 0]]

NoMatch == [ok |-> FALSE, caps |-> NoCaps]

RECURSIVE RunLength(_, _, _, _)
RunLength(c, s, pos, hi) ==
    IF hi = 0 \/ pos > Len(s) \/ ~InClass(c, s[pos]) THEN 0
    ELSE 1 + RunLength(c, s, pos + 1, hi - 1)

Config(pat, pos, caps) == [pat |-> pat, pos |-> pos, caps |-> caps]

\* the ways to match the head of a pattern at a position, in the order the
\* regex engine tries them (greedy: longest first; lazy: shortest first)
Successors(s, c) ==
    LET h == Head(c.pat)
        r == Tail(c.pat)
    IN IF h.t = "chr"
       THEN (IF c.pos <= Len(s) /\ s[c.pos] = h.ch
             THEN <<Config(r, c.pos + 1, c.caps)>> ELSE <<>>)
       ELSE IF h.t = "cls"
       THEN LET avail == RunLength(h.c, s, c.pos, h.hi)
            IN IF avail < h.lo THEN <<>>
               ELSE [k \in 1..(avail - h.lo + 1) |->
                        Config(r, c.pos + (IF h.lazy THEN h.lo + k - 1 ELSE avail - k + 1),
                               c.caps)]
       ELSE IF h.t = "alt"
       THEN [j \in 1..Len(h.alts) |-> Config(h.alts[j] \o r, c.pos, c.caps)]
       ELSE IF h.t = "open"
       THEN <<Config(r, c.pos, [c.caps EXCEPT ![h.g].from = c.pos])>>
       ELSE IF h.t = "close"
       THEN <<Config(r, c.pos, [c.caps EXCEPT ![h.g].to = c.pos - 1])>>
       ELSE IF c.pos = Len(s) + 1 THEN <<Config(r, c.pos, c.caps)>> ELSE <<>>

\* backtracking: the first way that matches the whole pattern
RECURSIVE Backtrack(_, _)
Backtrack(s, stack) ==
    IF stack = <<>> THEN NoMatch
    ELSE IF Head(stack).pat = <<>> THEN [ok |-> TRUE, caps |-> Head(stack).caps]
    ELSE Backtrack(s, Successors(s, Head(stack)) \o Tail(stack))

\* re.match(pat, s[pos:])
Match(pat, s, pos, caps) == Backtrack(s, <<Config(pat, pos, caps)>>)

\* re.search(pat, s)
RECURSIVE SearchFrom(_, _, _)
SearchFrom(pat, s, i) ==
    IF i > Len(s) + 1 THEN NoMatch
    ELSE LET m == Match(pat, s, i, NoCaps)
         IN IF m.ok THEN m ELSE SearchFrom(pat, s, i + 1)

Search(pat, s) == SearchFrom(pat, s, 1)

\* match.group(g)
Captured(s, m, g) == SubSeq(s, m.caps[g].from, m.caps[g].to)

Blanks == Cls("s", 1, Many)

(***************************************************************************)
(* dateutil.parser.parse(text, dayfirst=True).date(), for the date forms   *)
(* the model's texts use; fields the text omits come from the current      *)
(* date, and any other text is a ValueError (ParseFail)                    *)
(***************************************************************************)
MonthNames ==
    <<<<"j", "a", "n">>, <<"f", "e", "b">>, <<"m", "a", "r">>, <<"a", "p", "r">>, <<"m", "a", "y">>, <<"j", "u", "n">>, <<"j", "u", "l">>, <<"a", "u", "g">>, <<"s", "e", "p">>, <<"o", "c", "t">>, <<"n", "o", "v">>, <<"d", "e", "c">>>>

LongMonthNames ==
    <<<<"j", "a", "n", "u", "a", "r", "y">>, <<"f", "e", "b", "r", "u", "a", "r", "y">>, <<"m", "a", "r", "c", "h">>, <<"a", "p", "r", "i", "l">>, <<"m", "a", "y">>, <<"j", "u", "n", "e">>, <<"j", "u", "l", "y">>, <<"a", "u", "g", "u", "s", "t">>,
      <<"s", "e", "p", "t", "e", "m", "b", "e", "r">>, <<"o", "c", "t", "o", "b", "e", "r">>, <<"n", "o", "v", "e", "m", "b", "e", "r">>, <<"d", "e", "c", "e", "m", "b", "e", "r">>>>

IsMonthName(w) == \E m \in 1..12 : MonthNames[m] = w \/ LongMonthNames[m] = w

MonthNumber(w) == CHOOSE m \in 1..12 : MonthNames[m] = w \/ LongMonthNames[m] = w

DateOrFail(y, m, d) == IF ValidYMD(y, m, d) THEN Ordinal(y, m, d) ELSE ParseFail

OrdinalSuffix == Opt(Alt(<<Lit(<<"s", "t">>), Lit(<<"n", "d">>), Lit(<<"r", "d">>), Lit(<<"t", "h">>)>>))

IsoDateForm ==
    Group(1, Cls("d", 4, 4)) \o Lit(<<"-">>) \o Group(2, Cls("d", 1, 2)) \o Lit(<<"-">>)
        \o Group(3, Cls("d", 1, 2)) \o AtEnd

DayFirstForm ==
    Group(1, Cls("d", 1, 2)) \o Alt(<<Lit(<<"-">>), Lit(<<"/">>)>>) \o Group(2, Cls("d", 1, 2))
        \o Alt(<<Lit(<<"-">>), Lit(<<"/">>)>>) \o Group(3, Cls("d", 4, 4)) \o AtEnd

MonthDayForm ==
    Group(1, Cls("a", 1, Many)) \o Blanks \o Group(2, Cls("d", 1, 2)) \o OrdinalSuffix
        \o Alt(<<Opt(Lit(<<",">>)) \o Blanks \o Group(3, Cls("d", 4, 4)), <<>>>>) \o AtEnd

DayMonthForm ==
    Group(2, Cls("d", 1, 2)) \o OrdinalSuffix \o Blanks \o Group(1, Cls("a", 1, Many))
        \o Alt(<<Blanks \o Group(3, Cls("d", 4, 4)), <<>>>>) \o AtEnd

\* dayfirst=True: day/month/year unless the second number cannot be a month
DayFirstDate(a, b, y) ==
    IF ToInt(b) > 12 /\ ToInt(a) <= 12 THEN DateOrFail(ToInt(y), ToInt(a), ToInt(b))
    ELSE DateOrFail(ToInt(y), ToInt(b), ToInt(a))

NamedDate(name, day, year, now) ==
    IF ~IsMonthName(name) THEN ParseFail
    ELSE DateOrFail(IF year = <<>> THEN YearOf(now) ELSE ToInt(year),
                    MonthNumber(name), ToInt(day))

DateOfForm(s, now, iso, dmy, md, dm) ==
    IF iso.ok
    THEN DateOrFail(ToInt(Captured(s, iso, 1)), ToInt(Captured(s, iso, 2)),
                    ToInt(Captured(s, iso, 3)))
    ELSE IF dmy.ok
    THEN DayFirstDate(Captured(s, dmy, 1), Captured(s, dmy, 2), Captured(s, dmy, 3))
    ELSE IF md.ok
    THEN NamedDate(Captured(s, md, 1), Captured(s, md, 2), Captured(s, md, 3), now)
    ELSE IF dm.ok
    THEN NamedDate(Captured(s, dm, 1), Captured(s, dm, 2), Captured(s, dm, 3), now)
    ELSE ParseFail

ParseDate(s, now) ==
    DateOfForm(s, now, Match(IsoDateForm, s, 1, NoCaps), Match(DayFirstForm, s, 1, NoCaps),
               Match(MonthDayForm, s, 1, NoCaps), Match(DayMonthForm, s, 1, NoCaps))

(***************************************************************************)
(* TimeParser: the date helpers                                            *)
(***************************************************************************)
NoDate == 0

Min(a, b) == IF a <= b THEN a ELSE b

MonthsToDate(total, d) ==
    Ordinal(total \div 12, (total % 12) + 1,
            Min(d, DaysInMonth(total \div 12, (total % 12) + 1)))

\* date + relativedelta(months=k)
AddMonths(n, k) == MonthsToDate(YearOf(n) * 12 + (MonthOf(n) - 1) + k, DayOf(n))

AddUnits(n, value, unit) ==
    IF unit = <<"d", "a", "y">> THEN n + value
    ELSE IF unit = <<"w", "e", "e", "k">> THEN n + 7 * value
    ELSE AddMonths(n, value)

WeekStart(n) == n - Weekday(n)

GetWeekRange(n) == [start |-> WeekStart(n), end |-> WeekStart(n) + 6]

GetMonthRange(y, m) == [start |-> Ordinal(y, m, 1), end |-> Ordinal(y, m, DaysInMonth(y, m))]

GetNextWeekday(today, target) ==
    LET ahead == target - Weekday(today)
    IN today + (IF ahead <= 0 THEN ahead + 7 ELSE ahead)

LastOfMonth(y, m) == Ordinal(y, m, DaysInMonth(y, m))

GetMonthEnd(today) == LastOfMonth(YearOf(today), MonthOf(today))

GetMonthStart(today) == Ordinal(YearOf(today), MonthOf(today), 1)

QuarterOf(today) == ((MonthOf(today) - 1) \div 3) + 1

GetQuarterEnd(today) == LastOfMonth(YearOf(today), QuarterOf(today) * 3)

GetQuarterStart(today) == Ordinal(YearOf(today), (QuarterOf(today) - 1) * 3 + 1, 1)

GetYearEnd(today) == Ordinal(YearOf(today), 12, 31)

GetYearStart(today) == Ordinal(YearOf(today), 1, 1)

FiscalYearStart == 4

GetFiscalYearEnd(today) ==
    IF MonthOf(today) >= FiscalYearStart
    THEN LastOfMonth(YearOf(today) + 1, FiscalYearStart - 1)
    ELSE LastOfMonth(YearOf(today), FiscalYearStart - 1)

(***************************************************************************)
(* TimeParser: the lexicons, in the order the dictionaries are iterated    *)
(***************************************************************************)
BasicKeywords ==
    <<[w |-> <<"t", "o", "d", "a", "y">>, days |-> 0],
      [w |-> <<"t", "o", "m", "o", "r", "r", "o", "w">>, days |-> 1],
      [w |-> <<"y", "e", "s", "t", "e", "r", "d", "a", "y">>, days |-> 0 - 1],
      [w |-> <<"d", "a", "y", " ", "a", "f", "t", "e", "r", " ", "t", "o", "m", "o", "r", "r", "o", "w">>, days |-> 2]>>

WeekdayNames ==
    <<[w |-> <<"m", "o", "n", "d", "a", "y">>, n |-> 0], [w |-> <<"t", "u", "e", "s", "d", "a", "y">>, n |-> 1], [w |-> <<"w", "e", "d", "n", "e", "s", "d", "a", "y">>, n |-> 2],
      [w |-> <<"t", "h", "u", "r", "s", "d", "a", "y">>, n |-> 3], [w |-> <<"f", "r", "i", "d", "a", "y">>, n |-> 4], [w |-> <<"s", "a", "t", "u", "r", "d", "a", "y">>, n |-> 5],
      [w |-> <<"s", "u", "n", "d", "a", "y">>, n |-> 6],
      [w |-> <<"m", "o", "n">>, n |-> 0], [w |-> <<"t", "u", "e">>, n |-> 1], [w |-> <<"w", "e", "d">>, n |-> 2],
      [w |-> <<"t", "h", "u">>, n |-> 3], [w |-> <<"f", "r", "i">>, n |-> 4], [w |-> <<"s", "a", "t">>, n |-> 5],
      [w |-> <<"s", "u", "n">>, n |-> 6]>>

ComparisonPatterns ==
    <<[w |-> <<"b", "e", "f", "o", "r", "e">>, type |-> "before"],
      [w |-> <<"a", "f", "t", "e", "r">>, type |-> "after"],
      [w |-> <<"o", "n", " ", "o", "r", " ", "b", "e", "f", "o", "r", "e">>, type |-> "on_or_before"],
      [w |-> <<"o", "n", " ", "o", "r", " ", "a", "f", "t", "e", "r">>, type |-> "on_or_after"],
      [w |-> <<"b", "y">>, type |-> "on_or_before"],
      [w |-> <<"u", "n", "t", "i", "l">>, type |-> "on_or_before"],
      [w |-> <<"f", "r", "o", "m">>, type |-> "on_or_after"],
      [w |-> <<"s", "i", "n", "c", "e">>, type |-> "on_or_after"],
      [w |-> <<"n", "o", " ", "l", "a", "t", "e", "r", " ", "t", "h", "a", "n">>, type |-> "on_or_before"],
      [w |-> <<"n", "o", " ", "e", "a", "r", "l", "i", "e", "r", " ", "t", "h", "a", "n">>, type |-> "on_or_after"]>>

AnyLazy == LazyCls(".", 1, Many)

AnyGreedy == Cls(".", 1, Many)

RangePatterns ==
    <<Lit(<<"b", "e", "t", "w", "e", "e", "n">>) \o Blanks \o Group(1, AnyLazy) \o Blanks \o Lit(<<"a", "n", "d">>) \o Blanks
          \o Group(2, AnyGreedy),
      Lit(<<"f", "r", "o", "m">>) \o Blanks \o Group(1, AnyLazy) \o Blanks \o Lit(<<"t", "o">>) \o Blanks
          \o Group(2, AnyGreedy),
      Group(1, AnyLazy) \o Blanks \o Lit(<<"t", "o">>) \o Blanks \o Group(2, AnyGreedy),
      Group(1, AnyLazy) \o Blanks \o Lit(<<"t", "h", "r", "o", "u", "g", "h">>) \o Blanks \o Group(2, AnyGreedy),
      Group(1, AnyLazy) \o Blanks \o Lit(<<"-">>) \o Blanks \o Group(2, AnyGreedy)>>

BusinessPeriods ==
    <<[w |-> <<"m", "o", "n", "t", "h", " ", "e", "n", "d">>, f |-> "month_end"],
      [w |-> <<"m", "o", "n", "t", "h", " ", "s", "t", "a", "r", "t">>, f |-> "month_start"],
      [w |-> <<"q", "u", "a", "r", "t", "e", "r", " ", "e", "n", "d">>, f |-> "quarter_end"],
      [w |-> <<"q", "u", "a", "r", "t", "e", "r", " ", "s", "t", "a", "r", "t">>, f |-> "quarter_start"],
      [w |-> <<"y", "e", "a", "r", " ", "e", "n", "d">>, f |-> "year_end"],
      [w |-> <<"y", "e", "a", "r", " ", "s", "t", "a", "r", "t">>, f |-> "year_start"],
      [w |-> <<"f", "i", "s", "c", "a", "l", " ", "y", "e", "a", "r", " ", "e", "n", "d">>, f |-> "fiscal_year_end"],
      [w |-> <<"e", "n", "d", " ", "o", "f", " ", "m", "o", "n", "t", "h">>, f |-> "month_end"],
      [w |-> <<"b", "e", "g", "i", "n", "n", "i", "n", "g", " ", "o", "f", " ", "m", "o", "n", "t", "h">>, f |-> "month_start"],
      [w |-> <<"e", "n", "d", " ", "o", "f", " ", "q", "u", "a", "r", "t", "e", "r">>, f |-> "quarter_end"],
      [w |-> <<"e", "n", "d", " ", "o", "f", " ", "y", "e", "a", "r">>, f |-> "year_end"]>>

BusinessDate(f, today) ==
    IF f = "month_end" THEN GetMonthEnd(today)
    ELSE IF f = "month_start" THEN GetMonthStart(today)
    ELSE IF f = "quarter_end" THEN GetQuarterEnd(today)
    ELSE IF f = "quarter_start" THEN GetQuarterStart(today)
    ELSE IF f = "year_end" THEN GetYearEnd(today)
    ELSE IF f = "year_start" THEN GetYearStart(today)
    ELSE GetFiscalYearEnd(today)

FuzzyPatterns ==
    <<[w |-> <<"a", "r", "o", "u", "n", "d">>, tolerance |-> 3],
      [w |-> <<"r", "o", "u", "g", "h", "l", "y">>, tolerance |-> 5],
      [w |-> <<"a", "b", "o", "u", "t">>, tolerance |-> 3],
      [w |-> <<"a", "p", "p", "r", "o", "x", "i", "m", "a", "t", "e", "l", "y">>, tolerance |-> 5],
      [w |-> <<"s", "o", "m", "e", "t", "i", "m", "e">>, tolerance |-> 7],
      [w |-> <<"n", "e", "a", "r">>, tolerance |-> 2]>>

OverduePatterns ==
    <<<<"o", "v", "e", "r", "d", "u", "e">>, <<"l", "a", "t", "e">>, <<"p", "a", "s", "t", " ", "d", "u", "e">>, <<"b", "e", "h", "i", "n", "d", " ", "s", "c", "h", "e", "d", "u", "l", "e">>, <<"d", "e", "l", "a", "y", "e", "d">>, <<"m", "i", "s", "s", "e", "d">>, <<"e", "x", "p", "i", "r", "e", "d">>>>

Units == Alt(<<Lit(<<"d", "a", "y">>), Lit(<<"w", "e", "e", "k">>), Lit(<<"m", "o", "n", "t", "h">>)>>)

Plural == Opt(Lit(<<"s">>))

\* the index of the first lexicon entry whose word is in s, or 0
FirstIn(lexicon, s) ==
    IF \E i \in DOMAIN lexicon : Contains(s, lexicon[i].w)
    THEN CHOOSE i \in DOMAIN lexicon :
            /\ Contains(s, lexicon[i].w)
            /\ \A j \in 1..(i - 1) : ~Contains(s, lexicon[j].w)
    ELSE 0

(***************************************************************************)
(* TimeParser._parse_single_date_reference                                 *)
(***************************************************************************)
\* the no-year rule: a date before today in a text of fewer than three words
\* is moved to next year (replace(year=...) raises for 29 February)
RollYear(d, s, today) ==
    IF d < today /\ WordCount(s) < 3
    THEN DateOrFail(YearOf(today) + 1, MonthOf(d), DayOf(d))
    ELSE d

AgoOrFromNow ==
    Group(1, Cls("d", 1, Many)) \o Blanks \o Group(2, Units) \o Plural \o Blanks
        \o Group(3, Alt(<<Lit(<<"a", "g", "o">>), Lit(<<"f", "r", "o", "m">>) \o Blanks \o Lit(<<"n", "o", "w">>)>>))

Shifted(today, value, unit, direction) ==
    IF Contains(direction, <<"a", "g", "o">>) THEN AddUnits(today, 0 - value, unit)
    ELSE AddUnits(today, value, unit)

SingleDate(s, today, kw, wd, bp, rel, parsed) ==
    IF kw # 0 THEN today + BasicKeywords[kw].days
    ELSE IF wd # 0 THEN GetNextWeekday(today, WeekdayNames[wd].n)
    ELSE IF bp # 0 THEN BusinessDate(BusinessPeriods[bp].f, today)
    ELSE IF Contains(s, <<"n", "e", "x", "t", " ", "w", "e", "e", "k">>) THEN today + (7 - Weekday(today))
    ELSE IF Contains(s, <<"l", "a", "s", "t", " ", "w", "e", "e", "k">>) THEN today - (Weekday(today) + 7)
    ELSE IF Contains(s, <<"t", "h", "i", "s", " ", "w", "e", "e", "k">>) THEN today - Weekday(today)
    ELSE IF Contains(s, <<"n", "e", "x", "t", " ", "m", "o", "n", "t", "h">>) THEN AddMonths(GetMonthStart(today), 1)
    ELSE IF Contains(s, <<"l", "a", "s", "t", " ", "m", "o", "n", "t", "h">>) THEN AddMonths(GetMonthStart(today), 0 - 1)
    ELSE IF Contains(s, <<"t", "h", "i", "s", " ", "m", "o", "n", "t", "h">>) THEN GetMonthStart(today)
    ELSE IF rel.ok
    THEN Shifted(today, ToInt(Captured(s, rel, 1)), Captured(s, rel, 2), Captured(s, rel, 3))
    ELSE IF parsed # ParseFail THEN RollYear(parsed, s, today)
    ELSE ParseFail

\* the date a single reference names; TimeParsingError is the value ParseFail
ParseSingleDateReference(str, today, now) ==
    SingleDate(Strip(str), today, FirstIn(BasicKeywords, Strip(str)),
               FirstIn(WeekdayNames, Strip(str)), FirstIn(BusinessPeriods, Strip(str)),
               Search(AgoOrFromNow, Strip(str)), ParseDate(Strip(str), now))

(***************************************************************************)
(* TimeParser: the rule families of _parse_natural_language_time           *)
(***************************************************************************)
NotFound == [ok |-> FALSE, start |-> NoDate, end |-> NoDate, type |-> "none"]

Found(start, end, type) == [ok |-> TRUE, start |-> start, end |-> end, type |-> type]

\* the first rule of a list that yields a result
FirstFound(r, rest) == IF r.ok THEN r ELSE rest

RangeResult(ok, a, b) ==
    IF ok /\ a # ParseFail /\ b # ParseFail THEN Found(a, b, "range") ELSE NotFound

RangeMatch(s, m, today, now) ==
    RangeResult(m.ok, ParseSingleDateReference(Captured(s, m, 1), today, now),
                ParseSingleDateReference(Captured(s, m, 2), today, now))

RECURSIVE RangeFrom(_, _, _, _)
RangeFrom(i, s, today, now) ==
    IF i > Len(RangePatterns) THEN NotFound
    ELSE FirstFound(RangeMatch(s, Search(RangePatterns[i], s), today, now),
                    RangeFrom(i + 1, s, today, now))

ParseRangeQuery(s, today, now) == RangeFrom(1, s, today, now)

ComparisonRegex(phrase) ==
    Lit(phrase) \o Blanks \o Group(1, AnyLazy)
        \o Alt(<<Blanks \o Lit(<<"t", "h", "a", "t">>), Blanks \o Lit(<<"w", "h", "i", "c", "h">>), AtEnd>>)

\* a slip: the boundary day itself counted as before and as after
ComparisonResultInclusive(type, ok, target) ==
    IF ~ok \/ target = ParseFail THEN NotFound
    ELSE IF type = "before" THEN Found(NoDate, target, "before")
    ELSE IF type = "after" THEN Found(target, NoDate, "after")
    ELSE IF type = "on_or_before" THEN Found(NoDate, target, "on_or_before")
    ELSE Found(target, NoDate, "on_or_after")

ComparisonResult(type, ok, target) ==
    IF ~ok \/ target = ParseFail THEN NotFound
    ELSE IF type = "before" THEN Found(NoDate, target - 1, "before")
    ELSE IF type = "after" THEN Found(target + 1, NoDate, "after")
    ELSE IF type = "on_or_before" THEN Found(NoDate, target, "on_or_before")
    ELSE Found(target, NoDate, "on_or_after")

ComparisonMatch(c, s, m, today, now) ==
    ComparisonResult(c.type, Contains(s, c.w) /\ m.ok,
                     ParseSingleDateReference(Captured(s, m, 1), today, now))

RECURSIVE ComparisonFrom(_, _, _, _)
ComparisonFrom(i, s, today, now) ==
    IF i > Len(ComparisonPatterns) THEN NotFound
    ELSE FirstFound(ComparisonMatch(ComparisonPatterns[i], s,
                                    Search(ComparisonRegex(ComparisonPatterns[i].w), s),
                                    today, now),
                    ComparisonFrom(i + 1, s, today, now))

ParseComparisonQuery(s, today, now) == ComparisonFrom(1, s, today, now)

Exact(d) == Found(d, d, "exact")

WeekOf(n) == Found(GetWeekRange(n).start, GetWeekRange(n).end, "range")

MonthAround(n) ==
    Found(GetMonthRange(YearOf(n), MonthOf(n)).start,
          GetMonthRange(YearOf(n), MonthOf(n)).end, "range")

BasicFound(s, today, kw) ==
    IF kw # 0 THEN Exact(today + BasicKeywords[kw].days)
    ELSE IF Contains(s, <<"t", "h", "i", "s", " ", "w", "e", "e", "k">>) THEN WeekOf(today)
    ELSE IF Contains(s, <<"n", "e", "x", "t", " ", "w", "e", "e", "k">>) THEN WeekOf(today + (7 - Weekday(today)))
    ELSE IF Contains(s, <<"l", "a", "s", "t", " ", "w", "e", "e", "k">>) THEN WeekOf(today - (Weekday(today) + 7))
    ELSE IF Contains(s, <<"t", "h", "i", "s", " ", "m", "o", "n", "t", "h">>) THEN MonthAround(today)
    ELSE IF Contains(s, <<"n", "e", "x", "t", " ", "m", "o", "n", "t", "h">>) THEN MonthAround(AddMonths(GetMonthStart(today), 1))
    ELSE IF Contains(s, <<"l", "a", "s", "t", " ", "m", "o", "n", "t", "h">>) THEN MonthAround(AddMonths(GetMonthStart(today), 0 - 1))
    ELSE NotFound

ParseBasicKeywords(s, today) == BasicFound(s, today, FirstIn(BasicKeywords, s))

InUnits ==
    Lit(<<"i", "n">>) \o Blanks \o Group(1, Cls("d", 1, Many)) \o Blanks \o Group(2, Units) \o Plural

UnitsFromNow ==
    Group(1, Cls("d", 1, Many)) \o Blanks \o Group(2, Units) \o Plural \o Blanks
        \o Lit(<<"f", "r", "o", "m">>) \o Blanks \o Lit(<<"n", "o", "w">>)

NextUnits ==
    Lit(<<"n", "e", "x", "t">>) \o Blanks \o Group(1, Cls("d", 1, Many)) \o Blanks \o Group(2, Units) \o Plural

UnitsAfter(today, s, m) == AddUnits(today, ToInt(Captured(s, m, 1)), Captured(s, m, 2))

\* a slip: 'next N units' read as the single day N units ahead
RelativeFoundNextExact(s, today, m1, m2, m3) ==
    IF m1.ok THEN Exact(UnitsAfter(today, s, m1))
    ELSE IF m2.ok THEN Exact(UnitsAfter(today, s, m2))
    ELSE IF m3.ok THEN Exact(UnitsAfter(today, s, m3))
    ELSE NotFound

RelativeFound(s, today, m1, m2, m3) ==
    IF m1.ok THEN Exact(UnitsAfter(today, s, m1))
    ELSE IF m2.ok THEN Exact(UnitsAfter(today, s, m2))
    ELSE IF m3.ok THEN Found(today, UnitsAfter(today, s, m3), "range")
    ELSE NotFound

ParseRelativeDates(s, today) ==
    RelativeFound(s, today, Search(InUnits, s), Search(UnitsFromNow, s), Search(NextUnits, s))

DatePatterns ==
    <<Group(1, Cls("d", 4, 4) \o Lit(<<"-">>) \o Cls("d", 1, 2) \o Lit(<<"-">>) \o Cls("d", 1, 2)),
      Group(1, Cls("d", 1, 2) \o Lit(<<"-">>) \o Cls("d", 1, 2) \o Lit(<<"-">>) \o Cls("d", 4, 4)),
      Group(1, Cls("d", 1, 2) \o Lit(<<"/">>) \o Cls("d", 1, 2) \o Lit(<<"/">>) \o Cls("d", 4, 4)),
      Group(1, Cls("a", 1, Many) \o Blanks \o Cls("d", 1, 2) \o Opt(Lit(<<",">>)) \o Blanks
                 \o Cls("d", 4, 4)),
      Group(1, Cls("d", 1, 2) \o Blanks \o Cls("a", 1, Many) \o Blanks \o Cls("d", 4, 4)),
      Group(1, Cls("a", 1, Many) \o Blanks \o Cls("d", 1, 2) \o OrdinalSuffix),
      Group(1, Cls("d", 1, 2) \o OrdinalSuffix \o Blanks \o Cls("a", 1, Many))>>

\* the no-year rule applied to a parsed date; an exception skips the pattern
SpecificDate(text, today, parsed) ==
    IF parsed = ParseFail \/ RollYear(parsed, text, today) = ParseFail THEN NotFound
    ELSE Exact(RollYear(parsed, text, today))

SpecificMatch(s, m, today, now) ==
    IF m.ok THEN SpecificDate(Captured(s, m, 1), today, ParseDate(Captured(s, m, 1), now))
    ELSE NotFound

RECURSIVE SpecificFrom(_, _, _, _)
SpecificFrom(i, s, today, now) ==
    IF i > Len(DatePatterns) THEN NotFound
    ELSE FirstFound(SpecificMatch(s, Search(DatePatterns[i], s), today, now),
                    SpecificFrom(i + 1, s, today, now))

ParseSpecificDates(s, today, now) == SpecificFrom(1, s, today, now)

BusinessFound(bp, today) ==
    IF bp = 0 THEN NotFound ELSE Exact(BusinessDate(BusinessPeriods[bp].f, today))

ParseBusinessPeriods(s, today) == BusinessFound(FirstIn(BusinessPeriods, s), today)

FuzzyAround(f, ok, base) ==
    IF ok /\ base # ParseFail THEN Found(base - f.tolerance, base + f.tolerance, "range")
    ELSE NotFound

FuzzyMatch(f, s, today, now) ==
    FuzzyAround(f, Contains(s, f.w),
                ParseSingleDateReference(Strip(Remove(s, f.w)), today, now))

RECURSIVE FuzzyFrom(_, _, _, _)
FuzzyFrom(i, s, today, now) ==
    IF i > Len(FuzzyPatterns) THEN NotFound
    ELSE FirstFound(FuzzyMatch(FuzzyPatterns[i], s, today, now),
                    FuzzyFrom(i + 1, s, today, now))

ParseFuzzyReferences(s, today, now) == FuzzyFrom(1, s, today, now)

(***************************************************************************)
(* TimeParser._parse_natural_language_time and filter_dataframe_by_time    *)
(***************************************************************************)
Tagged(family, r) ==
    [ok |-> r.ok, family |-> family, start |-> r.start, end |-> r.end, type |-> r.type]

\* the answers of the seven rules to a stripped text
Families(s, today, now) ==
    [range |-> ParseRangeQuery(s, today, now),
     comparison |-> ParseComparisonQuery(s, today, now),
     basic |-> ParseBasicKeywords(s, today),
     relative |-> ParseRelativeDates(s, today),
     specific |-> ParseSpecificDates(s, today, now),
     business |-> ParseBusinessPeriods(s, today),
     fuzzy |-> ParseFuzzyReferences(s, today, now)]

FirstFamily(f) ==
    IF f.range.ok THEN Tagged("range", f.range)
    ELSE IF f.comparison.ok THEN Tagged("comparison", f.comparison)
    ELSE IF f.basic.ok THEN Tagged("basic", f.basic)
    ELSE IF f.relative.ok THEN Tagged("relative", f.relative)
    ELSE IF f.specific.ok THEN Tagged("specific", f.specific)
    ELSE IF f.business.ok THEN Tagged("business", f.business)
    ELSE IF f.fuzzy.ok THEN Tagged("fuzzy", f.fuzzy)
    ELSE Tagged("none", NotFound)

\* a slip: the basic keywords tried before the range and comparison rules
ParseBasicKeywordsFirst(text, today, now) ==
    IF ParseBasicKeywords(Strip(text), today).ok
    THEN Tagged("basic", ParseBasicKeywords(Strip(text), today))
    ELSE FirstFamily(Families(Strip(text), today, now))

\* the result of the first rule that yields one; none is a TimeParsingError
ParseNaturalLanguageTime(text, today, now) == FirstFamily(Families(Strip(text), today, now))

(***************************************************************************)
(* TimeParser: the calls of a resolution.  An entry is a rule or the        *)
(* sub-resolver being entered, with its nesting depth and its text.         *)
(***************************************************************************)
Entered(rule, depth, text) == [rule |-> rule, depth |-> depth, text |-> text]

RECURSIVE ResolveCalls(_, _, _, _)

\* a slip: the sub-resolver handing its text to the main parser
SingleCallsReentrant(str, today, now, depth) == ResolveCalls(str, today, now, depth)

\* the rules _parse_single_date_reference enters: none, it reads the
\* lexicons and dateutil itself
SingleCalls(str, today, now, depth) == <<>>

\* one call of the sub-resolver from a rule at the given depth
SingleCall(str, today, now, depth) ==
    <<Entered("single", depth + 1, Strip(str))>> \o SingleCalls(Strip(str), today, now, depth + 1)

\* the sub-resolver calls of one range pattern: the second side is resolved
\* only when the first side was
RangeSides(s, m, today, now, depth) ==
    IF ~m.ok THEN <<>>
    ELSE SingleCall(Captured(s, m, 1), today, now, depth)
            \o (IF ParseSingleDateReference(Captured(s, m, 1), today, now) = ParseFail THEN <<>>
                ELSE SingleCall(Captured(s, m, 2), today, now, depth))

RECURSIVE RangeCallsFrom(_, _, _, _, _)
RangeCallsFrom(i, s, today, now, depth) ==
    IF i > Len(RangePatterns) THEN <<>>
    ELSE RangeSides(s, Search(RangePatterns[i], s), today, now, depth)
            \o (IF RangeMatch(s, Search(RangePatterns[i], s), today, now).ok THEN <<>>
                ELSE RangeCallsFrom(i + 1, s, today, now, depth))

ComparisonFragment(c, s, m, today, now, depth) ==
    IF Contains(s, c.w) /\ m.ok THEN SingleCall(Captured(s, m, 1), today, now, depth) ELSE <<>>

RECURSIVE ComparisonCallsFrom(_, _, _, _, _)
ComparisonCallsFrom(i, s, today, now, depth) ==
    IF i > Len(ComparisonPatterns) THEN <<>>
    ELSE ComparisonFragment(ComparisonPatterns[i], s,
                            Search(ComparisonRegex(ComparisonPatterns[i].w), s), today, now, depth)
            \o (IF ComparisonMatch(ComparisonPatterns[i], s,
                                   Search(ComparisonRegex(ComparisonPatterns[i].w), s),
                                   today, now).ok
                THEN <<>>
                ELSE ComparisonCallsFrom(i + 1, s, today, now, depth))

RECURSIVE FuzzyCallsFrom(_, _, _, _, _)
FuzzyCallsFrom(i, s, today, now, depth) ==
    IF i > Len(FuzzyPatterns) THEN <<>>
    ELSE (IF Contains(s, FuzzyPatterns[i].w)
          THEN SingleCall(Remove(s, FuzzyPatterns[i].w), today, now, depth) ELSE <<>>)
            \o (IF FuzzyMatch(FuzzyPatterns[i], s, today, now).ok THEN <<>>
                ELSE FuzzyCallsFrom(i + 1, s, today, now, depth))

\* the rules tried after the comparison rule, up to the one that answers
LaterRules(s, f, today, now, depth) ==
    <<Entered("basic", depth + 1, s)>>
        \o (IF f.basic.ok THEN <<>> ELSE <<Entered("relative", depth + 1, s)>>)
        \o (IF f.basic.ok \/ f.relative.ok THEN <<>> ELSE <<Entered("specific", depth + 1, s)>>)
        \o (IF f.basic.ok \/ f.relative.ok \/ f.specific.ok THEN <<>>
            ELSE <<Entered("business", depth + 1, s)>>)
        \o (IF f.basic.ok \/ f.relative.ok \/ f.specific.ok \/ f.business.ok THEN <<>>
            ELSE <<Entered("fuzzy", depth + 1, s)>> \o FuzzyCallsFrom(1, s, today, now, depth + 1))

RulesTried(s, f, today, now, depth) ==
    <<Entered("range", depth + 1, s)>> \o RangeCallsFrom(1, s, today, now, depth + 1)
        \o (IF f.range.ok THEN <<>>
            ELSE <<Entered("comparison", depth + 1, s)>>
                    \o ComparisonCallsFrom(1, s, today, now, depth + 1)
                    \o (IF f.comparison.ok THEN <<>> ELSE LaterRules(s, f, today, now, depth)))

\* _parse_natural_language_time entered at a depth: the calls below it
ResolveCalls(text, today, now, depth) ==
    <<Entered("resolve", depth, Strip(text))>>
        \o RulesTried(Strip(text), Families(Strip(text), today, now), today, now, depth)

IsOverdueQuery(text) == \E i \in DOMAIN OverduePatterns : Contains(text, OverduePatterns[i])

\* a slip: 'before' and 'after' compared strictly
ApplyDateFilterStrict(rows, start, end, type) ==
    IF type = "exact" /\ start # NoDate
    THEN SelectSeq(rows, LAMBDA r : r.due = start)
    ELSE IF type = "range"
    THEN SelectSeq(rows, LAMBDA r : /\ (start # NoDate => r.due >= start)
                               /\ (end # NoDate => r.due <= end))
    ELSE IF type = "before" /\ end # NoDate THEN SelectSeq(rows, LAMBDA r : r.due < end)
    ELSE IF type = "after" /\ start # NoDate THEN SelectSeq(rows, LAMBDA r : r.due > start)
    ELSE IF type = "on_or_before" /\ end # NoDate THEN SelectSeq(rows, LAMBDA r : r.due <= end)
    ELSE IF type = "on_or_after" /\ start # NoDate THEN SelectSeq(rows, LAMBDA r : r.due >= start)
    ELSE rows

ApplyDateFilter(rows, start, end, type) ==
    IF type = "exact" /\ start # NoDate
    THEN SelectSeq(rows, LAMBDA r : r.due = start)
    ELSE IF type = "range"
    THEN SelectSeq(rows, LAMBDA r : /\ (start # NoDate => r.due >= start)
                               /\ (end # NoDate => r.due <= end))
    ELSE IF type = "before" /\ end # NoDate THEN SelectSeq(rows, LAMBDA r : r.due <= end)
    ELSE IF type = "after" /\ start # NoDate THEN SelectSeq(rows, LAMBDA r : r.due >= start)
    ELSE IF type = "on_or_before" /\ end # NoDate THEN SelectSeq(rows, LAMBDA r : r.due <= end)
    ELSE IF type = "on_or_after" /\ start # NoDate THEN SelectSeq(rows, LAMBDA r : r.due >= start)
    ELSE rows

LegacyDatePattern ==
    Group(1, Alt(<<Cls("d", 4, 4) \o Lit(<<"-">>) \o Cls("d", 1, 2) \o Lit(<<"-">>) \o Cls("d", 1, 2),
                   Cls("d", 1, 2) \o Lit(<<"-">>) \o Cls("d", 1, 2) \o Lit(<<"-">>) \o Cls("d", 4, 4),
                   Cls("d", 1, 2) \o Lit(<<"/">>) \o Cls("d", 1, 2) \o Lit(<<"/">>) \o Cls("d", 4, 4)>>))

LegacyDurationPattern ==
    Group(1, Cls("d", 1, Many)) \o Cls("s", 0, Many) \o Group(2, Units)

Raised(kind) == [outcome |-> kind, start |-> NoDate, end |-> NoDate, type |-> "none"]

Selects(start, end, type) == [outcome |-> "rows", start |-> start, end |-> end, type |-> type]

LegacySelection(text, now, later, dm, um) ==
    IF Contains(text, <<"t", "o", "d", "a", "y">>) THEN Selects(now, now, "exact")
    ELSE IF Contains(text, <<"t", "o", "m", "o", "r", "r", "o", "w">>) THEN Selects(now + 1, now + 1, "exact")
    ELSE IF Contains(text, <<"d", "a", "y", " ", "a", "f", "t", "e", "r", " ", "t", "o", "m", "o", "r", "r", "o", "w">>) THEN Selects(now + 2, now + 2, "exact")
    ELSE IF Contains(text, <<"t", "h", "i", "s", " ", "w", "e", "e", "k">>)
    THEN Selects(now - Weekday(now), now - Weekday(now) + 6, "range")
    ELSE IF Contains(text, <<"n", "e", "x", "t", " ", "w", "e", "e", "k">>)
    THEN Selects(now + (7 - Weekday(now)), now + (7 - Weekday(now)) + 6, "range")
    ELSE IF dm.ok
    THEN (IF ParseDate(Captured(text, dm, 1), now) = ParseFail THEN Raised("ValueError")
          ELSE Selects(ParseDate(Captured(text, dm, 1), now),
                       ParseDate(Captured(text, dm, 1), now), "exact"))
    ELSE IF um.ok
    THEN Selects(now, AddUnits(later, ToInt(Captured(text, um, 1)), Captured(text, um, 2)),
                 "range")
    ELSE Raised("TimeParsingError")

\* _legacy_filter: the dates it selects, or the exception it raises; now is
\* its date.today() and later its datetime.now().date()
LegacyFilter(text, now, later) ==
    LegacySelection(text, now, later, Search(LegacyDatePattern, text),
                    Search(LegacyDurationPattern, text))

Resolved(today, overdue, p, l) ==
    IF overdue
    THEN [family |-> "overdue", legacy |-> FALSE, outcome |-> "rows",
          start |-> NoDate, end |-> today, type |-> "overdue"]
    ELSE IF p.ok
    THEN [family |-> p.family, legacy |-> FALSE, outcome |-> "rows",
          start |-> p.start, end |-> p.end, type |-> p.type]
    ELSE [family |-> "none", legacy |-> TRUE, outcome |-> l.outcome,
          start |-> l.start, end |-> l.end, type |-> l.type]

\* filter_dataframe_by_time up to the row selection: the rule that answers
\* and the dates it selects
Resolution(text, today, now, later) ==
    Resolved(today, IsOverdueQuery(text), ParseNaturalLanguageTime(text, today, now),
             LegacyFilter(text, now, later))

\* the rows the call returns: the overdue selection, or _apply_date_filter
SelectedRows(rows, r) ==
    IF r.outcome # "rows" THEN <<>>
    ELSE IF r.type = "overdue" THEN SelectSeq(rows, LAMBDA x : x.due < r.end)
    ELSE ApplyDateFilter(rows, r.start, r.end, r.type)

Texts ==
    {<<"o", "v", "e", "r", "d", "u", "e">>,
     <<"n", "o", " ", "l", "a", "t", "e", "r", " ", "t", "h", "a", "n", " ", "t", "o", "m", "o", "r", "r", "o", "w">>,
     <<"b", "e", "t", "w", "e", "e", "n", " ", "d", "e", "c", " ", "1", " ", "a", "n", "d", " ", "d", "e", "c", " ", "1", "5">>,
     <<"b", "e", "f", "o", "r", "e", " ", "t", "o", "m", "o", "r", "r", "o", "w">>,
     <<"b", "y", " ", "f", "r", "i", "d", "a", "y">>,
     <<"t", "o", "d", "a", "y">>,
     <<"t", "o", "m", "o", "r", "r", "o", "w">>,
     <<"d", "a", "y", " ", "a", "f", "t", "e", "r", " ", "t", "o", "m", "o", "r", "r", "o", "w">>,
     <<"t", "h", "i", "s", " ", "w", "e", "e", "k">>,
     <<"n", "e", "x", "t", " ", "3", " ", "w", "e", "e", "k", "s">>,
     <<"i", "n", " ", "2", " ", "d", "a", "y", "s">>,
     <<"2", "0", "2", "5", "-", "0", "8", "-", "3", "0">>,
     <<"a", "u", "g", " ", "3", "0">>,
     <<"m", "o", "n", "t", "h", " ", "e", "n", "d">>,
     <<"a", "r", "o", "u", "n", "d", " ", "m", "o", "n", "d", "a", "y">>,
     <<"a", "r", "o", "u", "n", "d", " ", "t", "o", "m", "o", "r", "r", "o", "w">>,
     <<"a", "r", "o", "u", "n", "d", " ", "e", "n", "d", " ", "o", "f", " ", "q", "u", "a", "r", "t", "e", "r">>,
     <<"5", " ", "d", "a", "y", "s", " ", "a", "g", "o">>,
     <<"3", " ", "d", "a", "y", "s">>,
     <<"s", "o", "o", "n">>,
     <<"2", "0", "2", "5", "-", "0", "2", "-", "3", "0">>,
     <<"b", "e", "t", "w", "e", "e", "n", " ", "t", "o", "m", "o", "r", "r", "o", "w", " ", "a", "n", "d", " ", "t", "o", "d", "a", "y">>,
     <<"o", "n", " ", "o", "r", " ", "b", "e", "f", "o", "r", "e", " ", "t", "o", "m", "o", "r", "r", "o", "w">>,
     <<"o", "n", " ", "o", "r", " ", "a", "f", "t", "e", "r", " ", "t", "o", "m", "o", "r", "r", "o", "w">>,
     <<"a", "f", "t", "e", "r", " ", "t", "o", "m", "o", "r", "r", "o", "w">>,
     <<"s", "i", "n", "c", "e", " ", "m", "o", "n", "d", "a", "y">>,
     <<"u", "n", "t", "i", "l", " ", "f", "r", "i", "d", "a", "y">>,
     <<"f", "r", "o", "m", " ", "t", "o", "m", "o", "r", "r", "o", "w">>,
     <<"y", "e", "s", "t", "e", "r", "d", "a", "y">>,
     <<"2", " ", "w", "e", "e", "k", "s", " ", "f", "r", "o", "m", " ", "n", "o", "w">>,
     <<"i", "n", " ", "1", " ", "w", "e", "e", "k">>,
     <<"n", "e", "x", "t", " ", "2", " ", "d", "a", "y", "s">>,
     <<"b", "e", "f", "o", "r", "e", " ", "m", "o", "n", "t", "h", " ", "e", "n", "d">>}

(***************************************************************************)
(* SessionManager, PlanningTool.create_execution_plan, ExecutionTool       *)
(***************************************************************************)
NoPlan == [kind |-> "none"]

\* session_exists: an entry that timed out is deleted by the check
SessionExists(st) == st = "live"

SessionAfterCheck(st) == IF st = "live" THEN "live" ELSE "absent"

PlanAfterCheck(st, p) == IF st = "live" THEN p ELSE NoPlan

\* create_session: a new entry only when the id has no entry at all
SessionAfterCreate(st) == IF st = "absent" THEN "live" ELSE st

\* a slip: the executed plan left in the session
PlanKept(p) == p

\* what execute_plan leaves in last_action_plan once the plan has run
PlanAfterExecute(p) == NoPlan

\* the branch execute_plan takes for the stored plan
ExecuteBranch(p) ==
    IF p = NoPlan THEN "no_plan"
    ELSE IF p.kind = "actions"
    THEN (IF p.actions = 0 THEN "empty_plan" ELSE "run")
    ELSE IF p.kind = "reschedule"
    THEN (IF p.valid_orders = <<>> THEN "no_valid_orders" ELSE "run")
    ELSE "unknown_plan"

(***************************************************************************)
(* The system                                                              *)
(***************************************************************************)
LastDay == FirstDay + MaxTicks

\* the callers that may be inside execute_plan for the session at once
Callers == {"a", "b"}

Idle == [pc |-> "idle"]

NoneRunning == [c \in Callers |-> Idle]

\* the values a later date.today() read of the same call can return
LaterReads(t) == {t} \cup (IF t < LastDay THEN {t + 1} ELSE {})

DataSets ==
    {[i \in 1..Len(DataIds) |-> [id |-> DataIds[i], due |-> f[i]]] :
        f \in [1..Len(DataIds) -> DueDays]}

Init ==
    /\ sysdate = FirstDay
    /\ parserToday = FirstDay
    /\ data \in DataSets
    /\ req \in Requests
    /\ sessState = "live"
    /\ plan = NoPlan
    /\ handed = <<>>
    /\ last = NoCall
    /\ running = NoneRunning

\* midnight passes
Tick ==
    /\ sysdate < LastDay
    /\ sysdate' = sysdate + 1
    /\ UNCHANGED <<running, parserToday, data, req, sessState, plan, handed, last>>

\* the session is left alone for longer than session_timeout
Timeout ==
    /\ sessState = "live"
    /\ sessState' = "stale"
    /\ UNCHANGED <<running, sysdate, parserToday, data, req, plan, handed, last>>

\* create_session returns the id; entry is the state of the id's entry then
CreateSession ==
    /\ sessState # "live"
    /\ sessState' = SessionAfterCreate(sessState)
    /\ plan' = IF sessState = "absent" THEN NoPlan ELSE plan
    /\ last' = [op |-> "create_session", before |-> sessState,
                entry |-> SessionAfterCreate(sessState)]
    /\ UNCHANGED <<running, sysdate, parserToday, data, req, handed>>

Analyze ==
    LET r == AnalyzeEligibility(data, req.ids, sysdate)
    IN /\ last' = [op |-> "analyze", t1 |-> sysdate,
                   error |-> r.error, analysis |-> r.analysis,
                   summary |-> Summary(r.analysis)]
       /\ UNCHANGED <<running, sysdate, parserToday, data, req, sessState, plan, handed>>

Validate(t2) ==
    LET r == AnalyzeEligibility(data, req.ids, sysdate)
        failed == req.ids = <<>> \/ r.error
        v == IF failed THEN <<>>
             ELSE ValidateAll(r.analysis, req.rtype, req.target, req.offset, t2)
    IN /\ last' = [op |-> "validate", t1 |-> sysdate, t2 |-> t2,
                   error |-> failed, analysis |-> r.analysis, validations |-> v,
                   can_proceed |-> ~failed /\ OverallValid(v)]
       /\ sysdate' = t2
       /\ UNCHANGED <<running, parserToday, data, req, sessState, plan, handed>>

CreatePlan(t2) ==
    LET r == AnalyzeEligibility(data, req.ids, sysdate)
        b == BuildPlan(r.analysis, req.rtype, req.target, req.offset, t2)
        built == ~r.error /\ ~b.raised
        stored == built /\ SessionExists(sessState)
        err == IF r.error THEN "no_orders"
               ELSE IF b.raised THEN "exception"
               ELSE IF ~stored THEN "session_not_found"
               ELSE "none"
    IN /\ last' = [op |-> "create_plan", t1 |-> sysdate, t2 |-> t2,
                   error |-> err, analysis |-> r.analysis,
                   valid_orders |-> IF stored THEN b.valid_orders ELSE <<>>,
                   invalid_orders |-> IF stored THEN b.invalid_orders ELSE <<>>]
       /\ plan' = IF stored
                  THEN [kind |-> "reschedule", valid_orders |-> b.valid_orders,
                        invalid_orders |-> b.invalid_orders, reschedule_type |-> req.rtype]
                  ELSE IF built THEN PlanAfterCheck(sessState, plan)
                  ELSE plan
       /\ sessState' = IF built THEN SessionAfterCheck(sessState) ELSE sessState
       /\ sysdate' = t2
       /\ UNCHANGED <<running, parserToday, data, req, handed>>

\* planning_service.create_plan yields n actions, or raises (n = -1)
CreateExecutionPlan(n) ==
    LET ok == SessionExists(sessState)
        stored == ok /\ n > 0
    IN /\ last' = [op |-> "create_execution_plan",
                   error |-> IF ~ok THEN "session_not_found"
                             ELSE IF n < 0 THEN "exception" ELSE "none",
                   stored |-> stored]
       /\ plan' = IF stored THEN [kind |-> "actions", actions |-> n]
                  ELSE PlanAfterCheck(sessState, plan)
       /\ sessState' = SessionAfterCheck(sessState)
       /\ UNCHANGED <<running, sysdate, parserToday, data, req, handed>>

\* PlanningService._update_local_order_date: load_data hands out a copy of
\* the cache, the new date is written into that copy
LocalFrame(cache, id, new) ==
    [i \in DOMAIN cache |->
        IF cache[i].id = id THEN [cache[i] EXCEPT !.due = Strptime(new)] ELSE cache[i]]

\* save_data writes the copy to a file (or fails and returns False, which is
\* not looked at); the cache load_data answers from is not assigned
CacheAfterSave(cache, frame) == cache

UpdateLocalOrderDate(cache, id, new) ==
    CacheAfterSave(cache, LocalFrame(cache, id, new))

\* PlanningService.execute_reschedule_actions, with Odoo answering: every
\* action is reported as a success and the local update follows it
RECURSIVE ExecuteRescheduleActions(_, _, _)
ExecuteRescheduleActions(cache, orders, i) ==
    IF i > Len(orders) THEN cache
    ELSE ExecuteRescheduleActions(
             UpdateLocalOrderDate(cache, orders[i].planned_order_id, orders[i].new_due_date),
             orders, i + 1)

CacheAfterExecute(cache, p) ==
    IF p.kind = "reschedule" THEN ExecuteRescheduleActions(cache, p.valid_orders, 1)
    ELSE cache

ExecutePlan ==
    LET ok == SessionExists(sessState)
        branch == IF ok THEN ExecuteBranch(plan) ELSE "session_not_found"
        ran == branch = "run"
    IN /\ ran => Len(handed) < MaxHanded
       /\ last' = [op |-> "execute", error |-> IF ran THEN "none" ELSE branch,
                   ran |-> ran, live |-> ok,
                   after_run |-> last.op = "execute" /\ last.ran]
       /\ handed' = IF ran THEN Append(handed, plan) ELSE handed
       /\ data' = IF ran THEN CacheAfterExecute(data, plan) ELSE data
       /\ plan' = IF ran THEN PlanAfterExecute(plan) ELSE PlanAfterCheck(sessState, plan)
       /\ sessState' = SessionAfterCheck(sessState)
       /\ UNCHANGED <<running, sysdate, parserToday, req>>

\* the rescheduling tool, called with every request on every order data
Next ==
    \/ Tick
    \/ Analyze
    \/ \E t2 \in LaterReads(sysdate) : Validate(t2)
    \/ \E t2 \in LaterReads(sysdate) : CreatePlan(t2)

Spec == Init /\ [][Next]_vars

\* sessions, plans and their execution, on one order data and a few requests
ExecData ==
    <<[id |-> "PO1", due |-> FirstDay + 2], [id |-> "PO2", due |-> FirstDay - 1]>>

ExecRequests ==
    {r \in Requests : r.target = NoTarget /\ r.offset = IntOffset(1) /\ Len(r.ids) = 1}

InitExec ==
    /\ sysdate = FirstDay
    /\ parserToday = FirstDay
    /\ data = ExecData
    /\ req \in ExecRequests
    /\ sessState = "live"
    /\ plan = NoPlan
    /\ handed = <<>>
    /\ last = NoCall
    /\ running = NoneRunning

NextExec ==
    \/ Timeout
    \/ CreateSession
    \/ CreatePlan(sysdate)
    \/ \E n \in (0 - 1)..MaxActions : CreateExecutionPlan(n)
    \/ ExecutePlan

SpecExec == InitExec /\ [][NextExec]_vars

\* execute_plan, step by step, for callers that run at the same time.
\* get_session and the read of last_action_plan, with the checks of the plan
ExecuteRead(c) ==
    LET ok == SessionExists(sessState)
        branch == IF ok THEN ExecuteBranch(plan) ELSE "session_not_found"
    IN /\ running[c] = Idle
       /\ running' = IF branch = "run"
                     THEN [running EXCEPT ![c] = [pc |-> "read", plan |-> plan]]
                     ELSE running
       /\ last' = IF branch = "run" THEN last
                  ELSE [op |-> "execute", error |-> branch, ran |-> FALSE, live |-> ok,
                        after_run |-> last.op = "execute" /\ last.ran]
       /\ plan' = PlanAfterCheck(sessState, plan)
       /\ sessState' = SessionAfterCheck(sessState)
       /\ UNCHANGED <<sysdate, parserToday, data, req, handed>>

\* planning_service.execute_plan or execute_reschedule_actions on the plan read
ExecuteHand(c) ==
    /\ running[c].pc = "read"
    /\ Len(handed) < MaxHanded
    /\ handed' = Append(handed, running[c].plan)
    /\ data' = CacheAfterExecute(data, running[c].plan)
    /\ running' = [running EXCEPT ![c].pc = "handed"]
    /\ UNCHANGED <<sysdate, parserToday, req, sessState, plan, last>>

\* update_session(last_action_plan=None) and the answer; a session that timed
\* out meanwhile makes it raise, which execute_plan reports as an error
ExecuteReset(c) ==
    LET ok == SessionExists(sessState)
    IN /\ running[c].pc = "handed"
       /\ running' = [running EXCEPT ![c] = Idle]
       /\ last' = [op |-> "execute", error |-> IF ok THEN "none" ELSE "exception",
                   ran |-> TRUE, live |-> ok,
                   after_run |-> last.op = "execute" /\ last.ran]
       /\ plan' = IF ok THEN PlanAfterExecute(plan) ELSE PlanAfterCheck(sessState, plan)
       /\ sessState' = SessionAfterCheck(sessState)
       /\ UNCHANGED <<sysdate, parserToday, data, req, handed>>

\* the plans create_rescheduling_plan and create_execution_plan store
RescheduleStored(r) ==
    LET b == BuildPlan(AnalyzeEligibility(ExecData, r.ids, FirstDay).analysis,
                       r.rtype, r.target, r.offset, FirstDay)
    IN [kind |-> "reschedule", valid_orders |-> b.valid_orders,
        invalid_orders |-> b.invalid_orders, reschedule_type |-> r.rtype]

StoredPlans ==
    {RescheduleStored(r) : r \in ExecRequests}
        \cup {[kind |-> "actions", actions |-> n] : n \in 1..MaxActions}

\* a session that holds one stored plan; no further plan is created
InitRace ==
    /\ sysdate = FirstDay
    /\ parserToday = FirstDay
    /\ data = ExecData
    /\ req \in ExecRequests
    /\ sessState = "live"
    /\ plan \in StoredPlans
    /\ handed = <<>>
    /\ last = NoCall
    /\ running = NoneRunning

NextRace ==
    \/ Timeout
    \/ CreateSession
    \/ \E c \in Callers : ExecuteRead(c)
    \/ \E c \in Callers : ExecuteHand(c)
    \/ \E c \in Callers : ExecuteReset(c)

SpecRace == InitRace /\ [][NextRace]_vars

(***************************************************************************)
(* Queries: filter_dataframe_by_time on the order data                     *)
(***************************************************************************)
\* Resolution, tabulated for the texts and dates of the model
Resolutions ==
    [text \in Texts, today \in FirstDay..LastDay, now \in FirstDay..LastDay,
     later \in FirstDay..LastDay |-> Resolution(text, today, now, later)]

\* the call repeats the one before it: the same expression on the same clock
Repeats(text, t2) ==
    /\ last.op = "filter"
    /\ last.text = text
    /\ last.today = parserToday
    /\ last.now = sysdate
    /\ last.later = t2

\* what filter_dataframe_by_time returns for a resolution
Returned(text, t2, r) ==
    [op |-> "filter", text |-> text, today |-> parserToday, now |-> sysdate, later |-> t2,
     family |-> r.family, legacy |-> r.legacy,
     start |-> r.start, end |-> r.end, type |-> r.type,
     outcome |-> r.outcome, rows |-> SelectedRows(data, r),
     again |-> Repeats(text, t2),
     previous |-> IF Repeats(text, t2) THEN last.rows ELSE <<>>]

\* a slip: the rows dropped from the frame the caller passed
CallerFrameFiltered(rows, selected) == selected

\* df = df.copy(): the call works on its own copy, the caller's rows stay
CallerFrame(rows, selected) == rows

Filter(text, t2) ==
    /\ last' = Returned(text, t2, Resolutions[text, parserToday, sysdate, t2])
    /\ data' = CallerFrame(data, last'.rows)
    /\ sysdate' = t2
    /\ UNCHANGED <<running, parserToday, req, sessState, plan, handed>>

Kinds == {"exact", "range", "before", "after", "on_or_before", "on_or_after"}

Bounds == {NoDate} \cup DueDays

\* _apply_date_filter, called with a predicate of its own
ApplyFilter(start, end, type) ==
    /\ last' = [op |-> "apply", start |-> start, end |-> end, type |-> type,
                rows |-> ApplyDateFilter(data, start, end, type)]
    /\ UNCHANGED <<running, sysdate, parserToday, data, req, sessState, plan, handed>>

NoRequest == [ids |-> <<>>, rtype |-> "postpone", target |-> NoTarget, offset |-> NoOffset]

InitFilter ==
    /\ sysdate = FirstDay
    /\ parserToday = FirstDay
    /\ data \in DataSets
    /\ req = NoRequest
    /\ sessState = "live"
    /\ plan = NoPlan
    /\ handed = <<>>
    /\ last = NoCall
    /\ running = NoneRunning

NextFilter ==
    \/ Tick
    \/ \E text \in Texts : \E t2 \in LaterReads(sysdate) : Filter(text, t2)
    \/ \E start \in Bounds, end \in Bounds, type \in Kinds : ApplyFilter(start, end, type)

SpecFilter == InitFilter /\ [][NextFilter]_vars

(***************************************************************************)
(* Properties of the rescheduling tool                                     *)
(***************************************************************************)
DueOf(id) == data[CHOOSE i \in DOMAIN data : data[i].id = id].due

InData(id) == \E i \in DOMAIN data : data[i].id = id

Count(entries, id, field) ==
    Cardinality({i \in DOMAIN entries : entries[i][field] = id})

PlanReturned == last.op = "create_plan" /\ last.error = "none"

\* C1: no valid_orders entry of a built plan has a new_due_date earlier than
\* the date of the call, whatever the request (stated as claimed)
C1_NoPastNewDueDate ==
    PlanReturned =>
        \A i \in DOMAIN last.valid_orders :
            Strptime(last.valid_orders[i].new_due_date) >= last.t1

\* C2: every requested order id is in exactly one of valid_orders and
\* invalid_orders of the built plan (stated as claimed)
C2_PlanPartitionsRequest ==
    PlanReturned =>
        \A id \in Range(req.ids) :
            Count(last.valid_orders, id, "planned_order_id")
              + Count(last.invalid_orders, id, "order_id") = 1

\* C3: whenever some requested order exists, create_rescheduling_plan returns
\* a plan and stores it, and every selected order is in one of its two lists;
\* no per-order failure becomes an error of the whole call (stated as claimed)
C3_NoBatchError ==
    (last.op = "create_plan" /\ last.analysis # <<>>) =>
        /\ last.error = "none"
        /\ plan.kind = "reschedule"
        /\ plan.valid_orders = last.valid_orders
        /\ Len(last.valid_orders) + Len(last.invalid_orders) = Len(last.analysis)

\* C4: the analysis of every order has days_from_today = due date - today and
\* the status, can_prepone and max_prepone_days of its row of the table;
\* can_postpone is always true
C4_Classification ==
    last.op = "analyze" =>
        \A i \in DOMAIN last.analysis :
            LET a == last.analysis[i]
                days == DueOf(a.planned_order_id) - last.t1
            IN /\ a.days_from_today = days
               /\ a.can_postpone
               /\ days <= 0 => (a.status = "overdue_or_today" /\ ~a.can_prepone
                                  /\ a.max_prepone_days = 0)
               /\ days = 1 => (a.status = "tomorrow" /\ ~a.can_prepone
                                 /\ a.max_prepone_days = 0)
               /\ days > 1 => (a.status = "future" /\ a.can_prepone
                                 /\ a.max_prepone_days = days - 1)

C4_Witness ==
    /\ last.op = "analyze"
    /\ Len(last.analysis) = 2
    /\ last.analysis[1].status = "tomorrow"
    /\ last.analysis[2].status = "future"
    /\ last.analysis[2].max_prepone_days = 1

ValidationReturned == last.op = "validate" /\ ~last.error

PastTarget ==
    /\ ValidYMD(req.target.y, req.target.m, req.target.d)
    /\ Ordinal(req.target.y, req.target.m, req.target.d) < last.t2

\* C5: a target_date strictly before today makes every order of the batch
\* invalid, for prepone and postpone alike, and can_proceed false
C5_PastTargetInvalid ==
    (ValidationReturned /\ PastTarget) =>
        /\ \A i \in DOMAIN last.validations : ~last.validations[i].is_valid
        /\ ~last.can_proceed

C5_Witness ==
    /\ ValidationReturned
    /\ PastTarget
    /\ req.rtype = "postpone"
    /\ Len(last.validations) = 2
    /\ ~last.validations[1].is_valid
    /\ ~last.validations[2].is_valid

\* C6: with both target_date and days_offset given, the verdict of validation
\* (is_valid, errors) and the planned new_due_date are those of the same
\* request without days_offset (stated as claimed, for a numeric days_offset)
C6_TargetPrecedence ==
    /\ (ValidationReturned /\ TruthyTarget(req.target) /\ req.offset.k = "int") =>
          LET alone == ValidateAll(last.analysis, req.rtype, req.target, NoOffset, last.t2)
          IN \A i \in DOMAIN last.validations :
                /\ last.validations[i].is_valid = alone[i].is_valid
                /\ last.validations[i].errors = alone[i].errors
    /\ (PlanReturned /\ TruthyTarget(req.target) /\ req.offset.k = "int") =>
          LET alone == BuildPlan(last.analysis, req.rtype, req.target, NoOffset, last.t2)
          IN last.valid_orders = alone.valid_orders

\* C7: for a prepone request with only a numeric days_offset k, an order gets
\* the error 'would result in a past date' exactly when due date - |k| is
\* before today (stated as claimed)
C7_OffsetPastExactly ==
    (ValidationReturned /\ req.rtype = "prepone" /\ req.target = NoTarget
        /\ req.offset.k = "int") =>
        \A i \in DOMAIN last.validations :
            LET v == last.validations[i]
                due == DueOf(v.planned_order_id)
                past == due - Abs(req.offset.v) < last.t2
            IN /\ ("offset_past" \in Range(v.errors)) <=> past
               /\ past => ~v.is_valid

(***************************************************************************)
(* Properties of plan execution                                            *)
(***************************************************************************)
\* C8: an execute_plan that follows an execute_plan which ran the plan, with
\* no plan created in between and the session still alive, runs nothing and
\* answers that there is no action plan to execute
C8_PlanConsumedOnce ==
    (last.op = "execute" /\ last.after_run /\ last.live) =>
        (~last.ran /\ last.error = "no_plan")

C8_Witness ==
    /\ last.op = "execute"
    /\ last.after_run
    /\ last.live
    /\ last.error = "no_plan"
    /\ Len(handed) = 1
    /\ handed[1].kind = "reschedule"

(***************************************************************************)
(* Properties of the time parser                                           *)
(***************************************************************************)
Filtered == last.op = "filter"

FamilyOrder ==
    <<"overdue", "range", "comparison", "basic", "relative", "specific", "business", "fuzzy">>

FamilyResult(f, text, today, now) ==
    LET s == Strip(text)
    IN IF f = "overdue"
       THEN [ok |-> IsOverdueQuery(text), start |-> NoDate, end |-> today, type |-> "overdue"]
       ELSE IF f = "range" THEN ParseRangeQuery(s, today, now)
       ELSE IF f = "comparison" THEN ParseComparisonQuery(s, today, now)
       ELSE IF f = "basic" THEN ParseBasicKeywords(s, today)
       ELSE IF f = "relative" THEN ParseRelativeDates(s, today)
       ELSE IF f = "specific" THEN ParseSpecificDates(s, today, now)
       ELSE IF f = "business" THEN ParseBusinessPeriods(s, today)
       ELSE ParseFuzzyReferences(s, today, now)

\* the answer of every family, tabulated for the texts and dates of the model
FamilyResults ==
    [text \in Texts, today \in FirstDay..LastDay, now \in FirstDay..LastDay |->
        [i \in DOMAIN FamilyOrder |-> FamilyResult(FamilyOrder[i], text, today, now)]]

FamilyMatches(i) == FamilyResults[last.text, last.today, last.now][i]

\* C9: a time expression that matches none of the resolver rules fails with
\* TimeParsingError and returns no record set
C9_UnmatchedTextFails ==
    (Filtered /\ \A i \in DOMAIN FamilyOrder : ~FamilyMatches(i).ok)
        => last.outcome = "TimeParsingError" /\ last.rows = <<>>

\* C10: the result of a resolution is that of the first rule family, in the
\* order overdue, range, comparison, basic keyword, relative offset, specific
\* date, business period, fuzzy, that matches the text
C10_FirstFamilyWins ==
    Filtered =>
        \A i \in DOMAIN FamilyOrder :
            (FamilyMatches(i).ok /\ \A j \in 1..(i - 1) : ~FamilyMatches(j).ok)
                => /\ last.family = FamilyOrder[i]
                   /\ ~last.legacy
                   /\ last.start = FamilyMatches(i).start
                   /\ last.end = FamilyMatches(i).end
                   /\ last.type = FamilyMatches(i).type

\* "before tomorrow" matches the comparison rule and the basic keyword
\* "tomorrow"; the comparison rule answers
C10_Witness ==
    /\ Filtered
    /\ last.text = <<"b", "e", "f", "o", "r", "e", " ", "t", "o", "m", "o", "r", "r", "o", "w">>
    /\ FamilyMatches(3).ok
    /\ FamilyMatches(4).ok
    /\ last.family = "comparison"
    /\ last.type = "before"
    /\ last.end = last.today

\* C11: every predicate the range rule produces has its start on or before
\* its end, the two sides being swapped where needed (stated as claimed)
C11_RangeNormalized ==
    (Filtered /\ last.family = "range") => last.start <= last.end

\* the comparison phrase a text opens with (its lexicon index), or 0
LeadingPhrase(text) ==
    IF \E i \in DOMAIN ComparisonPatterns :
          StartsAt(text, ComparisonPatterns[i].w \o <<" ">>, 1)
    THEN CHOOSE i \in DOMAIN ComparisonPatterns :
            StartsAt(text, ComparisonPatterns[i].w \o <<" ">>, 1)
    ELSE 0

\* 'phrase X': the kind the lexicon gives the phrase and the date the
\* sub-resolver gives the fragment X
PhraseReading(text, today, now, i) ==
    IF i = 0 THEN [ok |-> FALSE, type |-> "none", date |-> NoDate]
    ELSE LET x == ParseSingleDateReference(
                      SubSeq(text, Len(ComparisonPatterns[i].w) + 2, Len(text)), today, now)
         IN [ok |-> x # ParseFail, type |-> ComparisonPatterns[i].type, date |-> x]

\* a text with a fuzzy word: the word's tolerance and the date the
\* sub-resolver gives the text without the word
FuzzyReading(text, today, now, i) ==
    IF i = 0 THEN [ok |-> FALSE, tolerance |-> 0, date |-> NoDate]
    ELSE LET x == ParseSingleDateReference(Strip(Remove(text, FuzzyPatterns[i].w)), today, now)
         IN [ok |-> x # ParseFail, tolerance |-> FuzzyPatterns[i].tolerance, date |-> x]

\* 'phrase X' with a business period in X: the date the business-period rule
\* gives X alone
PeriodReading(text, today, i) ==
    IF i = 0 THEN [ok |-> FALSE, date |-> NoDate]
    ELSE LET x == ParseBusinessPeriods(
                      SubSeq(text, Len(ComparisonPatterns[i].w) + 2, Len(text)), today)
         IN [ok |-> x.ok, date |-> x.start]

\* the days N units are: N days, or N weeks of seven days
DaysOf(text, m) ==
    ToInt(Captured(text, m, 1)) * (IF Captured(text, m, 2) = <<"d", "a", "y">> THEN 1 ELSE 7)

\* 'in N units', 'N units from now' and 'next N units', for days and weeks
RelativeReading(text, in, fromNow, next) ==
    LET m == IF in.ok THEN in ELSE IF fromNow.ok THEN fromNow ELSE next
    IN IF ~m.ok \/ Captured(text, m, 2) = <<"m", "o", "n", "t", "h">>
       THEN [ok |-> FALSE, next |-> FALSE, days |-> 0]
       ELSE [ok |-> TRUE, next |-> ~in.ok /\ ~fromNow.ok, days |-> DaysOf(text, m)]

\* the readings of the texts, tabulated for the texts and dates of the model
Readings ==
    [text \in Texts, today \in FirstDay..LastDay, now \in FirstDay..LastDay |->
        [phrase |-> PhraseReading(text, today, now, LeadingPhrase(text)),
         fuzzy |-> FuzzyReading(text, today, now, FirstIn(FuzzyPatterns, text)),
         period |-> PeriodReading(text, today, LeadingPhrase(text)),
         relative |-> RelativeReading(text, Match(InUnits \o AtEnd, text, 1, NoCaps),
                                      Match(UnitsFromNow \o AtEnd, text, 1, NoCaps),
                                      Match(NextUnits \o AtEnd, text, 1, NoCaps))]]

Reading == Readings[last.text, last.today, last.now]

\* C12: 'phrase X' resolves to the kind the lexicon gives the phrase:
\* OnOrBefore with bound X for on or before, by, until, no later than;
\* OnOrAfter with bound X for on or after, from, since, no earlier than;
\* Before for before and After for after (stated as claimed)
C12_PhraseKinds ==
    (Filtered /\ Reading.phrase.ok) =>
        /\ last.type = Reading.phrase.type
        /\ Reading.phrase.type = "on_or_before" => last.end = Reading.phrase.date
        /\ Reading.phrase.type = "on_or_after" => last.start = Reading.phrase.date

\* C13: 'before X' returns exactly the records dated strictly earlier than X
\* and 'after X' exactly those dated strictly later than X, X being the date
\* the sub-resolver gives the fragment
C13_ExclusiveBounds ==
    (Filtered /\ Reading.phrase.ok) =>
        /\ Reading.phrase.type = "before" =>
              last.rows = SelectSeq(data, LAMBDA r : r.due < Reading.phrase.date)
        /\ Reading.phrase.type = "after" =>
              last.rows = SelectSeq(data, LAMBDA r : r.due > Reading.phrase.date)

\* 'before tomorrow' on an order due today and an order due tomorrow: the
\* first is returned, the second is not
C13_Witness ==
    /\ Filtered
    /\ last.text = <<"b", "e", "f", "o", "r", "e", " ", "t", "o", "m", "o", "r", "r", "o", "w">>
    /\ Reading.phrase.type = "before"
    /\ Reading.phrase.date = last.today + 1
    /\ data[1].due = last.today
    /\ data[2].due = last.today + 1
    /\ last.rows = <<data[1]>>

\* C14: the texts 'today', 'tomorrow', 'yesterday' and 'day after tomorrow'
\* resolve to the exact single days today, today+1, today-1 and today+2
\* (stated as claimed)
C14_BasicKeywordDays ==
    Filtered =>
        \A k \in DOMAIN BasicKeywords :
            last.text = BasicKeywords[k].w =>
                /\ last.type = "exact"
                /\ last.start = last.today + BasicKeywords[k].days
                /\ last.end = last.today + BasicKeywords[k].days

\* C15: a text with a fuzzy word resolves to the range [D - t, D + t], D the
\* date the sub-resolver gives the text without the word and t the word's
\* tolerance (stated as claimed)
C15_FuzzySymmetricRange ==
    (Filtered /\ Reading.fuzzy.ok) =>
        /\ last.type = "range"
        /\ last.start = Reading.fuzzy.date - Reading.fuzzy.tolerance
        /\ last.end = Reading.fuzzy.date + Reading.fuzzy.tolerance

\* C16: for days and weeks, 'in N units' and 'N units from now' resolve to
\* the exact day today + N units and 'next N units' to the range from today
\* to today + N units, and the relative rule is the one that answers
C16_RelativeOffsets ==
    (Filtered /\ Reading.relative.ok) =>
        /\ last.family = "relative"
        /\ last.type = IF Reading.relative.next THEN "range" ELSE "exact"
        /\ last.start = IF Reading.relative.next THEN last.today
                        ELSE last.today + Reading.relative.days
        /\ last.end = last.today + Reading.relative.days

\* 'next 3 weeks' is the range from today to today + 21
C16_Witness ==
    /\ Filtered
    /\ last.text = <<"n", "e", "x", "t", " ", "3", " ", "w", "e", "e", "k", "s">>
    /\ Reading.relative.ok
    /\ Reading.relative.next
    /\ last.family = "relative"
    /\ last.type = "range"
    /\ last.start = last.today
    /\ last.end = last.today + 21

\* a date satisfies a predicate: the comparison of its kind
Satisfies(d, start, end, type) ==
    IF type = "exact" THEN d = start
    ELSE IF type = "range"
    THEN (start # NoDate => start <= d) /\ (end # NoDate => d <= end)
    ELSE IF type \in {"before", "on_or_before"} THEN d <= end
    ELSE d >= start

\* a predicate has the bound its kind compares with
WellFormed(start, end, type) ==
    IF type = "exact" THEN start # NoDate
    ELSE IF type = "range" THEN TRUE
    ELSE IF type \in {"before", "on_or_before"} THEN end # NoDate
    ELSE start # NoDate

Applied ==
    \/ last.op = "apply" /\ WellFormed(last.start, last.end, last.type)
    \/ Filtered /\ last.outcome = "rows" /\ last.type # "overdue"

\* C17: the filter returns exactly the records whose date satisfies the
\* comparison of the predicate's kind (Exact: d = x; Range: s <= d <= e, an
\* absent bound unbounded; Before, OnOrBefore: d <= e; After, OnOrAfter:
\* d >= s), and the result for Range(s,e) is the intersection of the results
\* for OnOrAfter(s) and OnOrBefore(e)
C17_FilterComparisons ==
    Applied =>
        /\ last.rows = SelectSeq(data, LAMBDA r :
                            Satisfies(r.due, last.start, last.end, last.type))
        /\ last.type = "range" =>
              Range(last.rows) =
                  Range(ApplyDateFilter(data, last.start, NoDate, "on_or_after"))
                      \cap Range(ApplyDateFilter(data, NoDate, last.end, "on_or_before"))

\* a range with no lower bound keeps the order due on its end and drops the
\* order due the day after
C17_Witness ==
    /\ last.op = "apply"
    /\ last.type = "range"
    /\ last.start = NoDate
    /\ last.end = FirstDay
    /\ data[1].due = FirstDay
    /\ data[2].due = FirstDay + 1
    /\ last.rows = <<data[1]>>

C19_OneToday ==
    (ValidationReturned \/ PlanReturned) => last.t1 = last.t2

PositionIn(ids, id) == CHOOSE i \in DOMAIN ids : ids[i] = id

InRequestOrder(entries, field) ==
    \A i, j \in DOMAIN entries :
        i < j => PositionIn(req.ids, entries[i][field]) < PositionIn(req.ids, entries[j][field])

\* C20: the entries of valid_orders, and those of invalid_orders, are in the
\* relative order of their ids in planned_order_ids (stated as claimed)
C20_RequestOrderKept ==
    (PlanReturned /\ req.ids # <<>>) =>
        /\ InRequestOrder(last.valid_orders, "planned_order_id")
        /\ InRequestOrder(last.invalid_orders, "order_id")

\* C21: a valid order planned from an integer days_offset alone has
\* new_due_date = due date - offset for prepone and due date + offset for
\* postpone, negative offsets included, and days_changed = new_due_date -
\* due date (stated as claimed)
C21_OffsetArithmetic ==
    (PlanReturned /\ req.target = NoTarget /\ req.offset.k = "int") =>
        \A i \in DOMAIN last.valid_orders :
            LET v == last.valid_orders[i]
                due == DueOf(v.planned_order_id)
                new == IF req.rtype = "prepone" THEN due - req.offset.v
                       ELSE due + req.offset.v
            IN /\ v.new_due_date = DateStr(new)
               /\ v.days_changed = new - due

\* the calls of the resolutions, tabulated for the texts and dates of the model
Traces ==
    [text \in Texts, today \in FirstDay..LastDay, now \in FirstDay..LastDay |->
        ResolveCalls(text, today, now, 0)]

Trace == Traces[last.text, last.today, last.now]

MaxTrace == 40

NoLaterThan == <<"n", "o", " ", "l", "a", "t", "e", "r", " ", "t", "h", "a", "n">>

\* C23: 'no later than X' is answered by the comparison rule, not by the
\* overdue rule, and returns exactly the records dated on or before X
\* (stated as claimed)
C23_NoLaterThanReachable ==
    (Filtered /\ Reading.phrase.ok /\ StartsAt(last.text, NoLaterThan, 1)) =>
        /\ last.family = "comparison"
        /\ last.rows = SelectSeq(data, LAMBDA r : r.due <= Reading.phrase.date)

PlannedValid(b, id) ==
    \E j \in DOMAIN b.valid_orders : b.valid_orders[j].planned_order_id = id

\* C24: for the same orders, today and request, validation gives an order
\* is_valid = true exactly when planning puts it in valid_orders (stated as
\* claimed, for the requests planning builds a plan for)
C24_ValidateAgreesWithPlan ==
    ValidationReturned =>
        LET b == BuildPlan(last.analysis, req.rtype, req.target, req.offset, last.t2)
        IN ~b.raised =>
              \A i \in DOMAIN last.validations :
                  last.validations[i].is_valid
                      <=> PlannedValid(b, last.validations[i].planned_order_id)

\* C25: however two execute_plan calls on the session interleave, the stored
\* plan is handed to the planning service at most once (stated as claimed)
C25_HandedAtMostOnce == Len(handed) <= 1

\* the date the latest executed plan reported for the order, NoDate if none
RECURSIVE LastRescheduled(_, _, _)
LastRescheduled(h, i, id) ==
    IF i = 0 THEN NoDate
    ELSE LET hits == IF h[i].kind # "reschedule" THEN {}
                     ELSE {j \in DOMAIN h[i].valid_orders :
                              h[i].valid_orders[j].planned_order_id = id}
         IN IF hits = {} THEN LastRescheduled(h, i - 1, id)
            ELSE Strptime(h[i].valid_orders[CHOOSE j \in hits : TRUE].new_due_date)

\* C26: once execute_plan has reported an order as rescheduled to date D, the
\* next plan call analyses the order with days_from_today = D - today (stated
\* as claimed)
C26_AnalysisSeesRescheduledDate ==
    last.op = "create_plan" =>
        \A i \in DOMAIN last.analysis :
            LET D == LastRescheduled(handed, Len(handed), last.analysis[i].planned_order_id)
            IN D # NoDate => last.analysis[i].days_from_today = D - last.t1

\* what a parser constructed at the time of the last call would have resolved
FreshResolution == Resolutions[last.text, last.now, last.now, last.later]

\* C27: a filter call answers for the calendar date of the call: the records
\* it returns are those a parser constructed at that moment returns (stated as
\* claimed)
C27_FilterUsesCallDate ==
    Filtered => /\ last.outcome = FreshResolution.outcome
                /\ last.rows = SelectedRows(data, FreshResolution)

\* a prepone request by days_offset alone
PreponeByOffset ==
    req.rtype = "prepone" /\ req.target = NoTarget /\ req.offset.k = "int"
        /\ req.offset.v # 0

\* the offset is within max_prepone_days of every analysis of the order
WithinMaxPrepone(id) ==
    \A i \in DOMAIN last.analysis :
        last.analysis[i].planned_order_id = id
            => Abs(req.offset.v) <= last.analysis[i].max_prepone_days

\* C28: validation and planning accept a prepone by days_offset k only if
\* |k| <= max_prepone_days of the order's analysis (stated as claimed)
C28_PreponeBoundEnforced ==
    /\ (ValidationReturned /\ PreponeByOffset) =>
           \A i \in DOMAIN last.validations :
               last.validations[i].is_valid
                   => WithinMaxPrepone(last.validations[i].planned_order_id)
    /\ (PlanReturned /\ PreponeByOffset) =>
           \A j \in DOMAIN last.valid_orders :
               WithinMaxPrepone(last.valid_orders[j].planned_order_id)

\* C29: a business-period phrase used as the fragment of a comparison gets
\* from the sub-resolver the date the business-period rule gives the phrase
\* alone (stated as claimed)
C29_SubResolverAgreesOnPeriods ==
    (Filtered /\ Reading.period.ok) => Reading.phrase.date = Reading.period.date

\* C30: when create_session has returned, the session is usable: a get_session
\* or update_session that follows at once finds it, also when a timed-out
\* entry was still there before the call (stated as claimed)
C30_CreatedSessionUsable ==
    last.op = "create_session" => SessionExists(last.entry)

====
